---- MODULE Spec2Model ----
(***************************************************************************)
(* Virtual museum: exhibit focus controller, auto tour sequencer and room  *)
(* camera navigator (js/interactions.js, js/navigation.js).                *)
(*                                                                         *)
(* The repository carries two builds of interactions.js: the one under     *)
(* js/ ("plain") and a variant with error handling ("hardened": guards on  *)
(* the exhibit count, try/catch around every handler, tour interval taken  *)
(* from CONFIG.tour.intervalDuration).  The variable `hardened` says which *)
(* build runs; it never changes.                                           *)
(*                                                                         *)
(* Lengths are in 1/100 world units, navigation progress in 1/1000.        *)
(* Every handler is a function from a state record to a state record, so   *)
(* that handlers calling clearFocus / navigateToRoom / showNextPortrait    *)
(* compose as they do in the source.                                       *)
(*                                                                         *)
(* Specifications:                                                         *)
(*   Spec        every handler, museums of at most two exhibits; the       *)
(*               camera pose is kept as what wrote it last                 *)
(*   TourSpec    a tour nobody disturbs, museums of up to eight exhibits   *)
(*   StepSpec    clicks, keys, tour and frames, museums of one room with   *)
(*               up to three exhibits and of two rooms                     *)
(*   NavSpec     the navigator alone with the pose in coordinates          *)
(*   TransitSpec transitions nobody interrupts, with a fair render loop    *)
(*   DestSpec    every room requested from every room, camera at rest      *)
(*   ShippedSpec clicks and keys in the shipped museum of 6 x 4 exhibits   *)
(*   RestartSpec tours started and stopped by the user                     *)
(*   LiveSpec    one tour with a few clicks and arrow steps, fair timers   *)
(***************************************************************************)
EXTENDS Integers, Sequences, FiniteSets, TLC

\* ------------------------------------------------------------------------
\* Bounds of the model
\* ------------------------------------------------------------------------
MaxStopTimeouts == 1
MaxSettleTimers == 1
MaxTimerIds == 2
MaxRestarts == 1
MaxInputs == 2

\* Museums the controller is run on, as portraits per room in build order:
\* no exhibit, one exhibit (every step stays in the room), two rooms of one
\* exhibit (every step crosses rooms)
Layouts == {<<>>, <<1>>, <<1, 1>>}

\* Museums an undisturbed tour is run on: one exhibit, one room of four,
\* two rooms of four
TourLayouts == {<<1>>, <<4>>, <<4, 4>>}

\* Museums the arrow keys are pressed in: one room of one, two and three
\* exhibits (every step stays in the room), and two rooms of one exhibit
\* (every step crosses rooms)
StepLayouts == {<<1>>, <<2>>, <<3>>, <<1, 1>>}

\* the room buttons clicked when the pose is followed in coordinates: the
\* entrance hall, two rooms of one side and a room of the other side
NavRoomIds == {"entrance", "historical", "scientists", "international"}

\* the progress values at which a request during a transition is taken:
\* before the first frame, after the first frame, and the frames on either
\* side of the middle of the path
RestartPoints == {0, 12, 492, 504}

\* the room buttons of the page that are clicked: one of a room, and one
\* without a data-room attribute, which passes undefined
ButtonRoomIds == {"historical", "undefined"}

\* ------------------------------------------------------------------------
\* Program constants
\* ------------------------------------------------------------------------
NavStep == 12
NavDone == 1000
RoomMatchDistance == 800
RoomSize == 1200
StopDelay == 4000
PlainTourInterval == 4000
ConfigTourInterval == 5000
RoomOffsetDistance == 800
RoomViewHeight == 400
LookAtHeight == 300
EntranceDistance == 1500
\* eased progress is kept in tenths of a progress unit
EaseUnit == 10 * NavDone

\* JavaScript null and undefined as values of focusTarget, null as a room
\* identifier, as a timer handle and as the pending focus
Null == -1
Undefined == -2
NoRoom == "null"
NoTimer == 0
NoPending == [portrait |-> Null, index |-> Null]

\* roomPositions, in the key order Object.entries iterates
RoomOrder == <<"entrance", "historical", "scientists", "actors",
               "international", "singers", "events">>

roomPositions ==
  [ entrance      |-> [x |-> 0,     z |-> 1800,  facing |-> "front"],
    historical    |-> [x |-> -1000, z |-> 0,     facing |-> "right"],
    scientists    |-> [x |-> -1000, z |-> -1400, facing |-> "right"],
    actors        |-> [x |-> -1000, z |-> -2800, facing |-> "right"],
    international |-> [x |-> 1000,  z |-> 0,     facing |-> "left"],
    singers       |-> [x |-> 1000,  z |-> -1400, facing |-> "left"],
    events        |-> [x |-> 1000,  z |-> -2800, facing |-> "left"] ]

RoomIds == DOMAIN roomPositions

\* room identifiers a caller can pass that are not keys of roomPositions
UnknownRoomIds == ButtonRoomIds \ RoomIds

\* the rooms portraitData fills, in insertion order
BuildOrder == <<"historical", "scientists", "actors",
                "international", "singers", "events">>

Abs(a) == IF a < 0 THEN -a ELSE a

\* JavaScript % for n > 0: the result takes the sign of the dividend
JsRem(a, n) == IF a >= 0 THEN a % n ELSE -((-a) % n)

\* Portrait.calculatePosition followed by getWorldPosition of the mesh:
\* the mesh sits frameDepth/2 + 0.01 = 0.07 in front of the frame group
PortraitAt(room, slot) ==
  LET rp == roomPositions[room]
      spacing == RoomSize \div 5
      offset == ((2 * slot - 3) * spacing) \div 2
  IN  IF rp.facing = "right"
        THEN [x |-> rp.x - RoomSize \div 2 + 15 + 7, z |-> rp.z + offset,
              facing |-> "right"]
      ELSE IF rp.facing = "left"
        THEN [x |-> rp.x + RoomSize \div 2 - 15 - 7, z |-> rp.z + offset,
              facing |-> "left"]
      ELSE [x |-> rp.x + offset, z |-> rp.z - RoomSize \div 2 + 15 + 7,
            facing |-> "front"]

\* MuseumRoom.build: the portraits of room k, slots 0..count-1
RoomPortraits(k, count) ==
  [slot \in 1..count |-> PortraitAt(BuildOrder[k], slot - 1)]

\* Museum.build: the rooms are built in insertion order, each pushing its
\* portraits to exhibits; counts[k] is the number of portraits of room k
RECURSIVE BuildRooms(_, _)
BuildRooms(counts, k) ==
  IF k > Len(counts) THEN <<>>
  ELSE RoomPortraits(k, counts[k]) \o BuildRooms(counts, k + 1)

Museum(counts) == BuildRooms(counts, 1)

VARIABLES
  hardened,              \* which build of interactions.js runs
  exhibits,              \* the exhibit sequence (world anchor and facing)
  focusTarget,           \* Null, Undefined or a position 0..N-1 in exhibits
  isLocked,
  controls,              \* enableRotate / enablePan / enableZoom
  currentPortraitIndex,
  isTouring,
  tourInterval,          \* handle held by the variable: Null or a timer id
  liveIntervals,         \* interval timers that are armed
  stopTimeouts,          \* pending end-of-cycle timeouts
  pendingPortraitFocus,  \* Null or [portrait, index]
  settleTimers,          \* pending 300 ms settle timeouts
  wasNavigating,
  isNavigating,
  navigationTarget,      \* Null or the destination room
  navProgress,
  camera,                \* camera pose (position and look-at)
  path,                  \* the transition and the pose in coordinates
  inputs,                \* history: clicks and arrow keys during the tour
  lastRead,              \* history: last index used to read exhibits
  lastOp                 \* history: the handler that ran last

constVars == <<hardened, exhibits>>
focusVars == <<focusTarget, isLocked, controls, currentPortraitIndex>>
tourVars == <<isTouring, tourInterval, liveIntervals, stopTimeouts>>
pendingVars == <<pendingPortraitFocus, settleTimers, wasNavigating>>
navVars == <<isNavigating, navigationTarget, navProgress>>
vars == <<constVars, focusVars, tourVars, pendingVars, navVars, camera,
          path, inputs, lastRead, lastOp>>

N == Len(exhibits)

ControlsOn == [enableRotate |-> TRUE, enablePan |-> TRUE, enableZoom |-> TRUE]
ControlsOff == [enableRotate |-> FALSE, enablePan |-> FALSE,
                enableZoom |-> FALSE]

\* Camera poses.  A pose is kept as the last thing that wrote it:
\* the initial pose, the viewing pose of a room (exact), a point on the
\* transition towards a room, or a point converging on an exhibit.
InitialPose == [kind |-> "initial", room |-> NoRoom, exhibit |-> Null]
RoomPose(r) == [kind |-> "room", room |-> r, exhibit |-> Null]
PathPose(r) == [kind |-> "path", room |-> r, exhibit |-> Null]
FocusPose(e) == [kind |-> "focus", room |-> NoRoom, exhibit |-> e]

\* a read of exhibits[index]; nan: the index was NaN
NoRead == [by |-> "none", index |-> 0, nan |-> FALSE]
Read(by, i) == [by |-> by, index |-> i, nan |-> FALSE]
ReadNaN(by) == [by |-> by, index |-> 0, nan |-> TRUE]

Op(name) == [op |-> name, room |-> NoRoom, exhibit |-> Null, key |-> ""]

\* the state as one record
Cur ==
  [ focusTarget |-> focusTarget, isLocked |-> isLocked,
    controls |-> controls, currentPortraitIndex |-> currentPortraitIndex,
    isTouring |-> isTouring, tourInterval |-> tourInterval,
    liveIntervals |-> liveIntervals, stopTimeouts |-> stopTimeouts,
    pendingPortraitFocus |-> pendingPortraitFocus,
    settleTimers |-> settleTimers, wasNavigating |-> wasNavigating,
    isNavigating |-> isNavigating, navigationTarget |-> navigationTarget,
    navProgress |-> navProgress, camera |-> camera, path |-> path,
    inputs |-> inputs, lastRead |-> NoRead, threw |-> FALSE ]

Becomes(s, op) ==
  /\ focusTarget' = s.focusTarget
  /\ isLocked' = s.isLocked
  /\ controls' = s.controls
  /\ currentPortraitIndex' = s.currentPortraitIndex
  /\ isTouring' = s.isTouring
  /\ tourInterval' = s.tourInterval
  /\ liveIntervals' = s.liveIntervals
  /\ stopTimeouts' = s.stopTimeouts
  /\ pendingPortraitFocus' = s.pendingPortraitFocus
  /\ settleTimers' = s.settleTimers
  /\ wasNavigating' = s.wasNavigating
  /\ isNavigating' = s.isNavigating
  /\ navigationTarget' = s.navigationTarget
  /\ navProgress' = s.navProgress
  /\ camera' = s.camera
  /\ path' = s.path
  /\ inputs' = s.inputs
  /\ lastRead' = s.lastRead
  /\ lastOp' = op
  /\ UNCHANGED constVars

\* ------------------------------------------------------------------------
\* Helpers of interactions.js
\* ------------------------------------------------------------------------

\* getRoomFromPortrait with a proximity box of twice the distance
GetRoomFromPortrait_WideBox(p) ==
  LET pos == exhibits[p + 1]
      Match(k) ==
        /\ RoomOrder[k] # "entrance"
        /\ Abs(pos.x - roomPositions[RoomOrder[k]].x) < 2 * RoomMatchDistance
        /\ Abs(pos.z - roomPositions[RoomOrder[k]].z) < 2 * RoomMatchDistance
      hits == {k \in 1..Len(RoomOrder) : Match(k)}
  IN  IF hits = {} THEN NoRoom
      ELSE RoomOrder[CHOOSE k \in hits : \A j \in hits : k <= j]

\* getRoomFromPortrait: first room in key order, the entrance excluded,
\* whose anchor is within the proximity box of the portrait
GetRoomFromPortrait(p) ==
  LET pos == exhibits[p + 1]
      Match(k) ==
        /\ RoomOrder[k] # "entrance"
        /\ Abs(pos.x - roomPositions[RoomOrder[k]].x) < RoomMatchDistance
        /\ Abs(pos.z - roomPositions[RoomOrder[k]].z) < RoomMatchDistance
      hits == {k \in 1..Len(RoomOrder) : Match(k)}
  IN  IF hits = {} THEN NoRoom
      ELSE RoomOrder[CHOOSE k \in hits : \A j \in hits : k <= j]

\* JavaScript truthiness of focusTarget
Truthy(t) == t # Null /\ t # Undefined

\* clearFocus
ClearFocus(s) ==
  IF s.isLocked
    THEN [s EXCEPT !.isLocked = FALSE, !.focusTarget = Null,
                   !.controls = ControlsOn]
    ELSE s

\* ------------------------------------------------------------------------
\* navigation.js
\* ------------------------------------------------------------------------

\* navigateToRoom with the callback invoked before the room is looked up
NavigateToRoom_CallbackFirst(s, roomId, withCallback) ==
  LET s1 == IF withCallback THEN ClearFocus(s) ELSE s
  IN  IF roomId \notin RoomIds THEN s1
      ELSE [s1 EXCEPT !.isNavigating = TRUE,
                      !.navProgress = 0,
                      !.navigationTarget = roomId]

\* navigateToRoom(roomId, clearFocusCallback)
NavigateToRoom(s, roomId, withCallback) ==
  IF roomId \notin RoomIds THEN s
  ELSE LET s1 == IF withCallback THEN ClearFocus(s) ELSE s
       IN  [s1 EXCEPT !.isNavigating = TRUE,
                      !.navProgress = 0,
                      !.navigationTarget = roomId]

\* updateNavigation without the early return and without the clamp
UpdateNavigation_KeepsCounting(s) ==
  LET p == s.navProgress + NavStep
      done == p >= NavDone
  IN  IF s.navigationTarget = NoRoom THEN s
      ELSE [s EXCEPT !.navProgress = p,
                     !.isNavigating = ~done,
                     !.camera = IF done THEN RoomPose(s.navigationTarget)
                                ELSE PathPose(s.navigationTarget)]

\* updateNavigation that stops one frame short of the destination
UpdateNavigation_StopsShort(s) ==
  IF ~s.isNavigating \/ s.navigationTarget = NoRoom THEN s
  ELSE LET p == s.navProgress + NavStep
           done == p + NavStep >= NavDone
       IN  [s EXCEPT !.navProgress = p,
                     !.isNavigating = ~done,
                     !.camera = PathPose(s.navigationTarget)]

\* updateNavigation
UpdateNavigation(s) ==
  IF ~s.isNavigating \/ s.navigationTarget = NoRoom THEN s
  ELSE LET p == s.navProgress + NavStep
           done == p >= NavDone
       IN  [s EXCEPT !.navProgress = IF done THEN NavDone ELSE p,
                     !.isNavigating = ~done,
                     !.camera = IF done THEN RoomPose(s.navigationTarget)
                                ELSE PathPose(s.navigationTarget)]

\* ------------------------------------------------------------------------
\* navigation.js in coordinates.  Lengths are fixed point numbers of 1/100,
\* the eased progress a fixed point number of 1/EaseUnit; a product is
\* rounded down where the source rounds to the nearest double.  The pose is
\* followed in coordinates while no exhibit is focused.
\* ------------------------------------------------------------------------

Vec(x, y, z) == [x |-> x, y |-> y, z |-> z]

\* camera.position and controls.target as scene.js sets them; the
\* transition fields are null until the first navigateToRoom.
\* restarts (history): requests accepted since the camera last rested
InitialPath ==
  [ position |-> Vec(0, 400, 2200), target |-> Vec(0, 300, 300),
    navStartPos |-> Vec(0, 0, 0), navStartTarget |-> Vec(0, 0, 0),
    navEndPos |-> Vec(0, 0, 0), navEndTarget |-> Vec(0, 0, 0),
    navCrossingSides |-> FALSE, restarts |-> 0 ]

\* navEndPos: the viewing position of a room
EndPos(roomId) ==
  LET roomPos == roomPositions[roomId]
  IN  IF roomPos.facing = "right"
        THEN Vec(roomPos.x + RoomOffsetDistance, RoomViewHeight, roomPos.z)
      ELSE IF roomPos.facing = "left"
        THEN Vec(roomPos.x - RoomOffsetDistance, RoomViewHeight, roomPos.z)
      ELSE Vec(roomPos.x, RoomViewHeight, roomPos.z + EntranceDistance)

\* navEndTarget placed at the room anchor for every facing
EndTarget_AtAnchor(roomId) ==
  LET roomPos == roomPositions[roomId]
  IN  Vec(roomPos.x, LookAtHeight, roomPos.z)

\* navEndTarget: the look-at point of a room
EndTarget(roomId) ==
  LET roomPos == roomPositions[roomId]
  IN  IF roomPos.facing \in {"right", "left"}
        THEN Vec(roomPos.x, LookAtHeight, roomPos.z)
      ELSE Vec(roomPos.x, LookAtHeight, roomPos.z - EntranceDistance)

\* navCrossingSides decided by the side the camera faces at the end
CrossingSides_ByTarget(startPos, endPos) ==
  \/ startPos.x < 0 /\ endPos.x < 0
  \/ startPos.x > 0 /\ endPos.x > 0

\* navCrossingSides
CrossingSides(startPos, endPos) ==
  \/ startPos.x < 0 /\ endPos.x > 0
  \/ startPos.x > 0 /\ endPos.x < 0

\* easeInOutQuad of a progress p/NavDone, in 1/EaseUnit
EaseInOutQuad(p) ==
  LET unit == (NavDone * NavDone) \div EaseUnit
  IN  IF 2 * p < NavDone
        THEN (2 * p * p) \div unit
        ELSE EaseUnit - (2 * (NavDone - p) * (NavDone - p)) \div unit

\* Vector3.lerpVectors, per component and for a vector
Lerp(a, b, t) == a + ((b - a) * t) \div EaseUnit

LerpVectors(v1, v2, t) ==
  Vec(Lerp(v1.x, v2.x, t), Lerp(v1.y, v2.y, t), Lerp(v1.z, v2.z, t))

\* the pose updateNavigation computes for progress p of transition q,
\* before the final snap
PoseAt(q, p) ==
  LET t == EaseInOutQuad(p)
      midZ == (q.navStartPos.z + q.navEndPos.z) \div 2
      midPoint == Vec(0, RoomViewHeight, midZ)
  IN  IF q.navCrossingSides
        THEN IF 2 * t < EaseUnit
          THEN LET t2 == t * 2
               IN  [position |-> LerpVectors(q.navStartPos, midPoint, t2),
                    target |-> Vec((q.navStartTarget.x * (EaseUnit - t2))
                                      \div EaseUnit,
                                   LookAtHeight, midZ)]
          ELSE LET t2 == (t - EaseUnit \div 2) * 2
               IN  [position |-> LerpVectors(midPoint, q.navEndPos, t2),
                    target |-> LerpVectors(Vec(0, LookAtHeight, midZ),
                                           q.navEndTarget, t2)]
        ELSE [position |-> LerpVectors(q.navStartPos, q.navEndPos, t),
              target |-> LerpVectors(q.navStartTarget, q.navEndTarget, t)]

\* navigateToRoom that keeps the start of a transition in flight
NavigateToRoomPath_KeepsStart(s, roomId, withCallback) ==
  LET s1 == NavigateToRoom(s, roomId, withCallback)
  IN  IF roomId \notin RoomIds THEN s1
      ELSE IF s.isNavigating
        THEN [s1 EXCEPT
                !.path.navEndPos = EndPos(roomId),
                !.path.navEndTarget = EndTarget(roomId),
                !.path.navCrossingSides =
                   CrossingSides(s.path.navStartPos, EndPos(roomId))]
      ELSE [s1 EXCEPT
              !.path.navStartPos = s.path.position,
              !.path.navStartTarget = s.path.target,
              !.path.navEndPos = EndPos(roomId),
              !.path.navEndTarget = EndTarget(roomId),
              !.path.navCrossingSides =
                 CrossingSides(s.path.position, EndPos(roomId))]

\* navigateToRoom with the start and the end of the transition
NavigateToRoomPath(s, roomId, withCallback) ==
  LET s1 == NavigateToRoom(s, roomId, withCallback)
  IN  IF roomId \notin RoomIds THEN s1
      ELSE [s1 EXCEPT
              !.path.navStartPos = s.path.position,
              !.path.navStartTarget = s.path.target,
              !.path.navEndPos = EndPos(roomId),
              !.path.navEndTarget = EndTarget(roomId),
              !.path.navCrossingSides =
                 CrossingSides(s.path.position, EndPos(roomId))]

\* updateNavigation with the pose it writes
UpdateNavigationPath(s) ==
  LET s1 == UpdateNavigation(s)
      moved == PoseAt(s.path, s1.navProgress)
  IN  IF ~s.isNavigating \/ s.navigationTarget = NoRoom THEN s1
      ELSE IF s1.navProgress >= NavDone
        THEN [s1 EXCEPT !.path.position = s.path.navEndPos,
                        !.path.target = s.path.navEndTarget]
        ELSE [s1 EXCEPT !.path.position = moved.position,
                        !.path.target = moved.target]

\* clearFocusAndGoToRoom that clears the focus before it reads the target
ClearFocusAndGoToRoom_ClearsFirst(s) ==
  LET s1 == ClearFocus(s)
  IN  IF s1.isLocked /\ Truthy(s1.focusTarget)
        THEN NavigateToRoom(s1, GetRoomFromPortrait(s1.focusTarget), FALSE)
        ELSE s1

\* clearFocusAndGoToRoom that returns to the room visited last when no
\* exhibit is focused
ClearFocusAndGoToRoom_ReturnsAnyway(s) ==
  IF s.isLocked /\ Truthy(s.focusTarget)
    THEN LET roomId == GetRoomFromPortrait(s.focusTarget)
             s1 == ClearFocus(s)
         IN  IF roomId # NoRoom THEN NavigateToRoom(s1, roomId, FALSE) ELSE s1
    ELSE NavigateToRoom(ClearFocus(s), s.navigationTarget, FALSE)

\* clearFocusAndGoToRoom
ClearFocusAndGoToRoom(s) ==
  IF s.isLocked /\ Truthy(s.focusTarget)
    THEN LET roomId == GetRoomFromPortrait(s.focusTarget)
             s1 == ClearFocus(s)
         IN  IF roomId # NoRoom THEN NavigateToRoom(s1, roomId, FALSE) ELSE s1
    ELSE ClearFocus(s)

\* ------------------------------------------------------------------------
\* Timers
\* ------------------------------------------------------------------------

TourIntervalPeriod == IF hardened THEN ConfigTourInterval ELSE PlainTourInterval

PendingStops(s) == s.stopTimeouts.before + s.stopTimeouts.racing

\* setTimeout(stop, 4000) inside showNextPortrait.  A timeout created by the
\* direct call of the start handler is registered before the interval, and
\* a timeout shorter than the interval period is due before the next tick:
\* both fire before the next tick.  A timeout created by an interval tick
\* with the same delay as the period is due at the same time as the next
\* tick and the order of the two depends on the browser.
ScheduleStop(s, fromInterval) ==
  IF fromInterval /\ StopDelay >= TourIntervalPeriod
    THEN [s EXCEPT !.stopTimeouts.racing = @ + 1]
    ELSE [s EXCEPT !.stopTimeouts.before = @ + 1]

\* a stop that forgets clearInterval
ClearTourInterval_Leak(s) ==
  IF hardened THEN [s EXCEPT !.tourInterval = NoTimer] ELSE s

\* clearInterval(tourInterval), and in the hardened build tourInterval = null
ClearTourInterval(s) ==
  IF hardened
    THEN IF s.tourInterval # NoTimer
           THEN [s EXCEPT !.liveIntervals = @ \ {s.tourInterval},
                          !.tourInterval = NoTimer]
           ELSE s
    ELSE [s EXCEPT !.liveIntervals = @ \ {s.tourInterval}]

\* the statements that stop the tour (toggle button, ESC, end of cycle)
StopTour(s) == ClearTourInterval([s EXCEPT !.isTouring = FALSE])

\* setInterval never returns the handle of an armed timer
FreeTimerIds(s) == (1..MaxTimerIds) \ s.liveIntervals

\* tourInterval = setInterval(showNextPortrait, period)
SetTourInterval(s) ==
  LET id == CHOOSE i \in FreeTimerIds(s) : \A j \in FreeTimerIds(s) : i <= j
  IN  [s EXCEPT !.tourInterval = id, !.liveIntervals = @ \cup {id}]

\* ------------------------------------------------------------------------
\* Auto tour
\* ------------------------------------------------------------------------

\* showNextPortrait that glides to the room of the exhibit it shows, as an
\* arrow step does
ShowNextPortrait_Navigates(s, fromInterval) ==
  LET i == s.currentPortraitIndex IN
  IF ~s.isTouring \/ i \notin 0..(N - 1) THEN s
  ELSE LET s1 == [s EXCEPT !.lastRead = Read("tour", i),
                           !.focusTarget = i,
                           !.isLocked = TRUE,
                           !.controls = ControlsOff,
                           !.currentPortraitIndex = JsRem(i + 1, N)]
           s2 == IF s1.currentPortraitIndex = 0
                   THEN ScheduleStop(s1, fromInterval) ELSE s1
       IN  IF Truthy(s.focusTarget)
              /\ GetRoomFromPortrait(s.focusTarget) # GetRoomFromPortrait(i)
             THEN NavigateToRoom(s2, GetRoomFromPortrait(i), FALSE)
             ELSE s2

\* showNextPortrait.  In the plain build exhibits[i] is read unguarded and
\* updateInfoPanel(undefined) throws after the focus fields were written.
ShowNextPortrait(s, fromInterval) ==
  LET i == s.currentPortraitIndex IN
  IF ~s.isTouring \/ (hardened /\ i >= N) THEN s
  ELSE LET target == IF i \in 0..(N - 1) THEN i ELSE Undefined
           s1 == [s EXCEPT !.lastRead = Read("tour", i),
                           !.focusTarget = target,
                           !.isLocked = TRUE,
                           !.controls = ControlsOff]
       IN  IF target = Undefined /\ ~hardened
             THEN [s1 EXCEPT !.threw = TRUE]
           ELSE LET next == JsRem(i + 1, N)
                    s2 == [s1 EXCEPT !.currentPortraitIndex = next]
                IN  IF next = 0 THEN ScheduleStop(s2, fromInterval) ELSE s2

\* tourBtn click handler
TourButton(s) ==
  IF s.isTouring THEN StopTour(s)
  ELSE IF hardened /\ N = 0 THEN s
  ELSE LET s1 == [s EXCEPT !.isTouring = TRUE, !.currentPortraitIndex = 0,
                           !.stopTimeouts =
                              [before |-> PendingStops(s), racing |-> 0]]
           s2 == ShowNextPortrait(s1, FALSE)
       IN  IF s2.threw THEN s2 ELSE SetTourInterval(s2)

\* the interval callback
TourTimer(s) ==
  ShowNextPortrait(
    [s EXCEPT !.stopTimeouts = [before |-> PendingStops(s), racing |-> 0]],
    TRUE)

\* the end-of-cycle timeout callback
StopTimeout(s) ==
  LET s1 == IF s.stopTimeouts.before > 0
              THEN [s EXCEPT !.stopTimeouts.before = @ - 1]
              ELSE [s EXCEPT !.stopTimeouts.racing = @ - 1]
  IN  IF s1.isTouring THEN StopTour(s1) ELSE s1

\* ------------------------------------------------------------------------
\* Click and keyboard handlers
\* ------------------------------------------------------------------------

\* the click handler storing the position of the exhibit, not the
\* position after it
ClickExhibit_StoresPosition(s, e) ==
  [s EXCEPT !.focusTarget = e,
            !.isLocked = TRUE,
            !.currentPortraitIndex = e,
            !.controls = ControlsOff]

\* window click handler with a ray hit on exhibit e
ClickExhibit(s, e) ==
  [s EXCEPT !.focusTarget = e,
            !.isLocked = TRUE,
            !.currentPortraitIndex = e + 1,
            !.controls = ControlsOff]

\* the step arithmetic without the + N of the backward step
StepIndex_NoWrap(s, key) ==
  LET i == s.currentPortraitIndex - 1
      forward == JsRem(i + 1, N)
      backward == JsRem(i - 1, N)
  IN  IF hardened
        THEN IF key = "ArrowRight" THEN forward ELSE backward
        ELSE IF key = "ArrowRight" THEN backward ELSE forward

\* the index an arrow key steps to: forward is (i + 1) % N and backward is
\* (i - 1 + N) % N of i = currentPortraitIndex - 1.  The plain build steps
\* backward on ArrowRight and forward on ArrowLeft, the hardened build the
\* other way round.
StepIndex(s, key) ==
  LET i == s.currentPortraitIndex - 1
      forward == JsRem(i + 1, N)
      backward == JsRem(i - 1 + N, N)
  IN  IF hardened
        THEN IF key = "ArrowRight" THEN forward ELSE backward
        ELSE IF key = "ArrowRight" THEN backward ELSE forward

\* the key that steps forward, (i + 1) % N, and the key that steps
\* backward, (i - 1 + N) % N, in the build that runs
NextKey == IF hardened THEN "ArrowRight" ELSE "ArrowLeft"
PreviousKey == IF hardened THEN "ArrowLeft" ELSE "ArrowRight"

\* the arrow key handler without the room comparison
ArrowKey_AlwaysDirect(s, key) ==
  IF ~s.isLocked \/ N = 0 THEN s
  ELSE LET newIndex == StepIndex(s, key)
       IN  [s EXCEPT !.lastRead = Read("arrow", newIndex),
                     !.focusTarget = newIndex,
                     !.currentPortraitIndex = newIndex + 1]

\* keydown handler, ArrowRight / ArrowLeft part
ArrowKey(s, key) ==
  IF ~s.isLocked THEN s
  ELSE IF N = 0
    THEN IF hardened THEN s ELSE [s EXCEPT !.lastRead = ReadNaN("arrow")]
  ELSE LET newIndex == StepIndex(s, key)
           s1 == [s EXCEPT !.lastRead = Read("arrow", newIndex)]
       IN  IF newIndex \notin 0..(N - 1) THEN s1
           ELSE LET currentRoom == IF Truthy(s.focusTarget)
                                     THEN GetRoomFromPortrait(s.focusTarget)
                                     ELSE NoRoom
                    newRoom == GetRoomFromPortrait(newIndex)
                IN  IF currentRoom # NoRoom /\ newRoom # NoRoom
                       /\ currentRoom # newRoom
                      THEN NavigateToRoom(
                             [ClearFocus(s1) EXCEPT !.pendingPortraitFocus =
                                [portrait |-> newIndex, index |-> newIndex]],
                             newRoom, FALSE)
                      ELSE [s1 EXCEPT !.focusTarget = newIndex,
                                      !.currentPortraitIndex = newIndex + 1]

\* keydown handler, Escape part
EscapeKey(s) ==
  ClearFocusAndGoToRoom(IF s.isTouring THEN StopTour(s) ELSE s)

\* keydown handler
KeyDown(s, key) ==
  IF key = "Escape" THEN EscapeKey(s) ELSE ArrowKey(s, key)

\* ------------------------------------------------------------------------
\* Animation loop
\* ------------------------------------------------------------------------

\* the settle timeout callback created by animate
SettleTimeout(s) ==
  LET s1 == [s EXCEPT !.settleTimers = @ - 1]
      p == s.pendingPortraitFocus
  IN  IF p # NoPending
        THEN [s1 EXCEPT !.focusTarget = p.portrait,
                        !.currentPortraitIndex = p.index + 1,
                        !.isLocked = TRUE,
                        !.controls = ControlsOff,
                        !.pendingPortraitFocus = NoPending]
        ELSE s1

\* animate: one frame
Animate(s) ==
  LET s1 == IF s.wasNavigating /\ ~s.isNavigating
               /\ s.pendingPortraitFocus # NoPending
              THEN [s EXCEPT !.settleTimers = @ + 1]
              ELSE s
      s2 == [s1 EXCEPT !.wasNavigating = s1.isNavigating]
      s3 == IF Truthy(s2.focusTarget) /\ s2.isLocked
              THEN [s2 EXCEPT !.camera = FocusPose(s2.focusTarget)]
              ELSE s2
  IN  UpdateNavigation(s3)

\* ------------------------------------------------------------------------
\* The state machine
\* ------------------------------------------------------------------------

InitState ==
  /\ focusTarget = Null
  /\ isLocked = FALSE
  /\ controls = ControlsOn
  /\ currentPortraitIndex = 0
  /\ isTouring = FALSE
  /\ tourInterval = NoTimer
  /\ liveIntervals = {}
  /\ stopTimeouts = [before |-> 0, racing |-> 0]
  /\ pendingPortraitFocus = NoPending
  /\ settleTimers = 0
  /\ wasNavigating = FALSE
  /\ isNavigating = FALSE
  /\ navigationTarget = NoRoom
  /\ navProgress = 0
  /\ camera = InitialPose
  /\ path = InitialPath
  /\ inputs = 0
  /\ lastRead = NoRead
  /\ lastOp = Op("init")

Init ==
  /\ hardened \in BOOLEAN
  /\ exhibits \in {Museum(c) : c \in Layouts}
  /\ InitState

\* a click on an exhibit
Click ==
  \E e \in 0..(N - 1) :
    Becomes(ClickExhibit(Cur, e), [Op("click") EXCEPT !.exhibit = e])

\* Escape, ArrowRight or ArrowLeft pressed
Key ==
  \E key \in {"Escape", "ArrowRight", "ArrowLeft"} :
    Becomes(KeyDown(Cur, key), [Op("key") EXCEPT !.key = key])

\* a room button clicked: navigateToRoom(btn.dataset.room, clearFocus)
RoomButton ==
  \E roomId \in ButtonRoomIds :
    Becomes(NavigateToRoom(Cur, roomId, TRUE),
            [Op("room") EXCEPT !.room = roomId])

\* the tour button clicked
TourToggle ==
  /\ isTouring \/ FreeTimerIds(Cur) # {}
  /\ PendingStops(TourButton(Cur)) <= MaxStopTimeouts
  /\ Becomes(TourButton(Cur), Op("tour"))

\* the tour interval fires; pending timeouts due earlier have fired
TourTick ==
  /\ liveIntervals # {}
  /\ stopTimeouts.before = 0
  /\ PendingStops(TourTimer(Cur)) <= MaxStopTimeouts
  /\ Becomes(TourTimer(Cur), Op("tick"))

\* an end-of-cycle timeout fires
StopFire ==
  /\ PendingStops(Cur) > 0
  /\ Becomes(StopTimeout(Cur), Op("stop"))

\* a settle timeout fires
SettleFire ==
  /\ settleTimers > 0
  /\ Becomes(SettleTimeout(Cur), Op("settle"))

\* a frame is rendered
Frame ==
  /\ Animate(Cur).settleTimers <= MaxSettleTimers
  /\ Becomes(Animate(Cur), Op("frame"))

Next ==
  \/ Click
  \/ Key
  \/ RoomButton
  \/ TourToggle
  \/ TourTick
  \/ StopFire
  \/ SettleFire
  \/ Frame

Spec == Init /\ [][Next]_vars

TypeOK ==
  /\ hardened \in BOOLEAN
  /\ focusTarget \in {Null, Undefined} \cup 0..(N - 1)
  /\ isLocked \in BOOLEAN
  /\ currentPortraitIndex \in 0..N
  /\ navProgress \in 0..NavDone

\* ------------------------------------------------------------------------
\* An undisturbed tour: the tour is started once and no other input occurs
\* ------------------------------------------------------------------------

TourInit ==
  /\ hardened \in BOOLEAN
  /\ exhibits \in {Museum(c) : c \in TourLayouts}
  /\ InitState

TourStart ==
  /\ ~isTouring
  /\ focusTarget = Null
  /\ TourToggle

TourNext ==
  \/ TourStart
  \/ TourTick
  \/ StopFire
  \/ Frame

TourSpec == TourInit /\ [][TourNext]_vars

\* ------------------------------------------------------------------------
\* Stepping through the exhibits: clicks, keys, the tour and frames
\* ------------------------------------------------------------------------

StepInit ==
  /\ hardened \in BOOLEAN
  /\ exhibits \in {Museum(c) : c \in StepLayouts}
  /\ InitState

StepNext ==
  \/ Click
  \/ Key
  \/ TourToggle
  \/ TourTick
  \/ StopFire
  \/ SettleFire
  \/ Frame

StepSpec == StepInit /\ [][StepNext]_vars

\* ------------------------------------------------------------------------
\* The navigator alone, with the pose in coordinates: room buttons and
\* frames, no exhibit
\* ------------------------------------------------------------------------

\* animate: one frame, with the pose updateNavigation writes
AnimatePath(s) == [Animate(s) EXCEPT !.path = UpdateNavigationPath(s).path]

NavInit ==
  /\ hardened = FALSE
  /\ exhibits = Museum(<<>>)
  /\ InitState

\* a room button clicked, at rest or at one of the restart points
NavRequest ==
  \E roomId \in NavRoomIds :
    /\ isNavigating =>
          navProgress \in RestartPoints /\ path.restarts < MaxRestarts
    /\ Becomes([NavigateToRoomPath(Cur, roomId, TRUE) EXCEPT
                  !.path.restarts = IF isNavigating THEN @ + 1 ELSE 0],
               [Op("room") EXCEPT !.room = roomId])

\* a frame is rendered
NavFrame == Becomes(AnimatePath(Cur), Op("frame"))

NavNext ==
  \/ NavRequest
  \/ NavFrame

NavSpec == NavInit /\ [][NavNext]_vars

\* a room button clicked while the camera rests
RestRequest ==
  /\ ~isNavigating
  /\ NavRequest

TransitNext ==
  \/ RestRequest
  \/ NavFrame

\* Transitions nobody interrupts.  The render loop keeps running:
\* animate re-arms itself with requestAnimationFrame.
TransitSpec == NavInit /\ [][TransitNext]_vars /\ WF_vars(NavFrame)

\* ------------------------------------------------------------------------
\* Every room visited from every room: a room button is clicked while the
\* camera rests, for each key of roomPositions
\* ------------------------------------------------------------------------

DestRequest ==
  /\ ~isNavigating
  /\ \E roomId \in RoomIds :
       Becomes(NavigateToRoomPath(Cur, roomId, TRUE),
               [Op("room") EXCEPT !.room = roomId])

DestNext ==
  \/ DestRequest
  \/ NavFrame

DestSpec == NavInit /\ [][DestNext]_vars

\* ------------------------------------------------------------------------
\* The shipped museum: portraitData fills six rooms with four portraits
\* each.  Exhibits are clicked and keys pressed; no frame is rendered.
\* ------------------------------------------------------------------------

ShippedLayout == <<4, 4, 4, 4, 4, 4>>

ShippedInit ==
  /\ hardened \in BOOLEAN
  /\ exhibits = Museum(ShippedLayout)
  /\ InitState

ShippedNext ==
  \/ Click
  \/ Key

ShippedSpec == ShippedInit /\ [][ShippedNext]_vars

\* ------------------------------------------------------------------------
\* Tours started and stopped by the user: the tour button and Escape, the
\* interval and the end-of-cycle timeouts; no exhibit is clicked.  A
\* timeout left by a stopped tour is due before the first tick of the tour
\* started after it.
\* ------------------------------------------------------------------------

\* Escape pressed
Escape ==
  Becomes(EscapeKey(Cur), [Op("key") EXCEPT !.key = "Escape"])

\* the tour interval fires after the end-of-cycle timeout of its own
\* cycle: the order of a browser that runs the timeout first
PunctualTick ==
  /\ PendingStops(Cur) = 0
  /\ TourTick

RestartNext ==
  \/ TourToggle
  \/ Escape
  \/ PunctualTick
  \/ StopFire

RestartSpec == TourInit /\ [][RestartNext]_vars

\* ------------------------------------------------------------------------
\* One tour with a few user inputs: the tour is started once, at most
\* MaxInputs exhibits are clicked or arrow keys pressed while it runs, and
\* the timers and the render loop keep running
\* ------------------------------------------------------------------------

\* the tour button clicked, once
LiveStart ==
  /\ lastOp.op = "init"
  /\ TourToggle

\* an exhibit clicked during the tour
LiveClick ==
  /\ isTouring
  /\ inputs < MaxInputs
  /\ \E e \in 0..(N - 1) :
       Becomes([ClickExhibit(Cur, e) EXCEPT !.inputs = @ + 1],
               [Op("click") EXCEPT !.exhibit = e])

\* ArrowRight or ArrowLeft pressed during the tour
LiveArrow ==
  /\ isTouring
  /\ inputs < MaxInputs
  /\ \E key \in {"ArrowRight", "ArrowLeft"} :
       Becomes([ArrowKey(Cur, key) EXCEPT !.inputs = @ + 1],
               [Op("key") EXCEPT !.key = key])

LiveNext ==
  \/ LiveStart
  \/ LiveClick
  \/ LiveArrow
  \/ TourTick
  \/ StopFire
  \/ SettleFire
  \/ Frame

\* setInterval and setTimeout callbacks run when they are due, and animate
\* re-arms itself with requestAnimationFrame
LiveSpec ==
  /\ StepInit
  /\ [][LiveNext]_vars
  /\ WF_vars(TourTick)
  /\ WF_vars(StopFire)
  /\ WF_vars(SettleFire)
  /\ WF_vars(Frame)

\* ------------------------------------------------------------------------
\* Properties
\* ------------------------------------------------------------------------

IsExhibit(t) == t \in 0..(N - 1)

\* C1: in every reachable state isLocked holds iff focusTarget is an
\* exhibit, and the orbit controls are all enabled iff isLocked is false.
C1_LockedIffFocused ==
  /\ isLocked <=> IsExhibit(focusTarget)
  /\ (controls = ControlsOn) <=> ~isLocked
  /\ (controls = ControlsOff) <=> isLocked

\* C2: every read of exhibits by the tour timer callback and by the arrow
\* key handler uses an index in 0..N-1, for N >= 1.
C2_ReadsInBounds ==
  (N >= 1 /\ lastRead.by # "none") =>
     (~lastRead.nan /\ lastRead.index \in 0..(N - 1))

\* C3: a stored pending focus is only ever removed by the focus action
\* that applies it (it is applied exactly once, never dropped).
C3_PendingAppliedOnce ==
  [][(pendingPortraitFocus # NoPending
        /\ pendingPortraitFocus' # pendingPortraitFocus)
       => /\ pendingPortraitFocus' = NoPending
          /\ focusTarget' = pendingPortraitFocus.portrait
          /\ isLocked']_vars

\* C4: right after ESC the controller is idle: no focus target, unlocked,
\* tour stopped, no pending focus.
C4_EscapeLeavesIdle ==
  (lastOp.op = "key" /\ lastOp.key = "Escape") =>
     /\ focusTarget = Null
     /\ ~isLocked
     /\ ~isTouring
     /\ pendingPortraitFocus = NoPending

\* C5: when an exhibit focus starts by a click or a tour tick, no room
\* navigation is active any more.
C5_FocusAbandonsNavigation ==
  (lastOp.op = "click" \/ (lastOp.op = "tick" /\ lastRead.by = "tour")) =>
     ~isNavigating

\* C6: an undisturbed tour shows the exhibits in ascending order, each
\* once: while it runs the exhibit shown is the one before the stored
\* index, and when it has stopped by itself the last exhibit is the one
\* shown, the index is back at 0 and no interval is armed.
C6_TourShowsEachOnce ==
  /\ (isTouring /\ IsExhibit(focusTarget)) =>
        /\ focusTarget = (currentPortraitIndex + N - 1) % N
        /\ (PendingStops(Cur) > 0 => focusTarget = N - 1)
  /\ (~isTouring /\ focusTarget # Null) =>
        /\ focusTarget = N - 1
        /\ currentPortraitIndex = 0
        /\ liveIntervals = {}

\* C7: during an undisturbed tour no navigation is ever requested:
\* isNavigating stays false and the transition state is untouched.
C7_TourNeverNavigates ==
  /\ ~isNavigating
  /\ navigationTarget = NoRoom
  /\ navProgress = 0
  /\ camera.kind \in {"initial", "focus"}

\* C7 witness: the tour has moved on to an exhibit of the second room
C7_Witness ==
  /\ isTouring
  /\ IsExhibit(focusTarget)
  /\ focusTarget > 0
  /\ GetRoomFromPortrait(focusTarget) # GetRoomFromPortrait(focusTarget - 1)

\* C8: with an empty exhibit sequence the tour never starts: isTouring
\* stays false, no timer exists and the focus state is as constructed.
C8_EmptyTourIsNoOp ==
  N = 0 =>
     /\ ~isTouring
     /\ liveIntervals = {}
     /\ PendingStops(Cur) = 0
     /\ focusTarget = Null
     /\ ~isLocked
     /\ currentPortraitIndex = 0

\* C9: whenever isTouring is false no advancement interval is armed, and
\* at most one interval is armed at any time.
C9_NoIntervalWhenStopped ==
  /\ ~isTouring => liveIntervals = {}
  /\ Cardinality(liveIntervals) <= 1

\* C9 witness: a tour that was running has been stopped
C9_Witness ==
  /\ lastOp.op \in {"stop", "key", "tour"}
  /\ ~isTouring
  /\ tourInterval # NoTimer \/ hardened
  /\ IsExhibit(focusTarget) \/ lastOp.op = "key"
  /\ currentPortraitIndex > 0 \/ lastOp.op = "stop"
  /\ N > 0

AtDestination ==
  /\ navigationTarget # NoRoom
  /\ navProgress = NavDone
  /\ path.position = EndPos(navigationTarget)
  /\ path.target = EndTarget(navigationTarget)

\* C11: a request for a room during a transition starts a new transition
\* from the pose of that moment, with progress 0 and the pose of the new
\* room as destination; frames never change the destination, so the
\* camera comes to rest at the room requested last.
C11_RestartDiscardsTransition ==
  [][
      /\ (lastOp'.op = "room" /\ lastOp'.room \in RoomIds /\ isNavigating)
           => (/\ path'.navStartPos = path.position
               /\ path'.navStartTarget = path.target
               /\ path'.position = path.position
               /\ navProgress' = 0
               /\ isNavigating'
               /\ navigationTarget' = lastOp'.room
               /\ path'.navEndPos = EndPos(lastOp'.room)
               /\ path'.navEndTarget = EndTarget(lastOp'.room))
      /\ (lastOp'.op = "frame")
           => (/\ navigationTarget' = navigationTarget
               /\ path'.navEndPos = path.navEndPos
               /\ path'.navEndTarget = path.navEndTarget
               /\ ((isNavigating /\ ~isNavigating')
                     => path'.position = EndPos(navigationTarget)))
    ]_vars

\* C11 witness: a transition was restarted from a pose on the way, and the
\* camera has come to rest at the room requested last
C11_Witness ==
  /\ path.restarts > 0
  /\ path.navStartPos \notin {EndPos(r) : r \in RoomIds}
  /\ path.navStartPos # InitialPath.position
  /\ ~isNavigating
  /\ AtDestination

\* C12: every transition ends: a navigation in flight leads to a state
\* where isNavigating is false, and whenever isNavigating is false after a
\* request the pose equals the destination pose exactly.
C12_NavigationTerminates ==
  /\ [](((~isNavigating) /\ navigationTarget # NoRoom) => AtDestination)
  /\ (isNavigating ~> ~isNavigating)

\* C12 witness: a transition across the corridor has ended at its
\* destination
C12_Witness ==
  /\ ~isNavigating
  /\ AtDestination
  /\ path.navCrossingSides
  /\ lastOp.op = "frame"

\* C13: a frame rendered after a transition has ended changes neither the
\* pose nor the progress nor isNavigating.
C13_DoneIsFixedPoint ==
  [][(lastOp'.op = "frame" /\ ~isNavigating /\ navigationTarget # NoRoom)
       => /\ path' = path
          /\ navProgress' = NavDone
          /\ ~isNavigating'
          /\ path'.position = EndPos(navigationTarget)
          /\ path'.target = EndTarget(navigationTarget)]_vars

\* C13 witness: a second frame was rendered after the end of a transition
\* across the corridor
C13_Witness ==
  /\ lastOp.op = "frame"
  /\ ~isNavigating
  /\ ~wasNavigating
  /\ AtDestination
  /\ path.navCrossingSides

\* the rooms on the other side of the corridor
OppositeSides(a, b) ==
  \/ roomPositions[a].x < 0 /\ roomPositions[b].x > 0
  \/ roomPositions[a].x > 0 /\ roomPositions[b].x < 0

\* C14: a transition that starts at the viewing pose of a room and targets
\* a room of the other side has navCrossingSides set, and its position
\* for progress 0.5 is on the corridor centre, half way in depth.
C14_CrossingPassesCentre ==
  \A a \in RoomIds :
    (/\ navigationTarget # NoRoom
     /\ path.navStartPos = EndPos(a)
     /\ OppositeSides(a, navigationTarget))
      => /\ path.navCrossingSides
         /\ PoseAt(path, NavDone \div 2).position.x = 0
         /\ 2 * PoseAt(path, NavDone \div 2).position.z
               = path.navStartPos.z + path.navEndPos.z

\* C14 witness: on the way from the historical room to the room opposite
C14_Witness ==
  /\ isNavigating
  /\ navProgress > 0
  /\ navigationTarget = "international"
  /\ path.navStartPos = EndPos("historical")

\* an arrow key is handled in a locked state of a museum with exhibits
ArrowStep ==
  /\ lastOp'.op = "key"
  /\ lastOp'.key \in {"ArrowRight", "ArrowLeft"}
  /\ isLocked
  /\ N > 0

\* the room of the focused exhibit as the arrow key handler resolves it
CurrentRoom ==
  IF Truthy(focusTarget) THEN GetRoomFromPortrait(focusTarget) ELSE NoRoom

\* the exhibit a step has moved to: the focus target, or the pending focus
\* when the step went through a room navigation
SteppedTo ==
  IF isLocked THEN focusTarget ELSE pendingPortraitFocus.portrait

\* the room a portrait was built in: the room one of whose wall slots it
\* occupies
RoomOf(e) ==
  CHOOSE r \in RoomIds :
    \E slot \in 0..3 : PortraitAt(r, slot) = exhibits[e + 1]

\* C15: an arrow step from a locked state requests a navigation iff the
\* rooms of the focused and of the target exhibit are both resolved and
\* differ.  Then the controller is unlocked without focus target, the
\* pending focus holds the target, a navigation to the room of the target
\* is active and the stored index is unchanged.  Otherwise the target is
\* focused directly and the navigation state is untouched.
C15_StepNavigatesIffRoomsDiffer ==
  [][ArrowStep =>
       LET target == StepIndex(Cur, lastOp'.key)
           newRoom == GetRoomFromPortrait(target)
       IN  IF CurrentRoom # NoRoom /\ newRoom # NoRoom
              /\ CurrentRoom # newRoom
             THEN /\ ~isLocked'
                  /\ focusTarget' = Null
                  /\ controls' = ControlsOn
                  /\ pendingPortraitFocus' =
                        [portrait |-> target, index |-> target]
                  /\ isNavigating'
                  /\ navigationTarget' = newRoom
                  /\ navProgress' = 0
                  /\ currentPortraitIndex' = currentPortraitIndex
             ELSE /\ isLocked'
                  /\ focusTarget' = target
                  /\ currentPortraitIndex' = target + 1
                  /\ UNCHANGED <<navVars, pendingPortraitFocus>>
    ]_vars

\* C15 witness: a step from the exhibit of the first room to the exhibit
\* of the second room has stored the pending focus and started the
\* navigation
C15_Witness ==
  /\ lastOp.op = "key"
  /\ lastOp.key \in {"ArrowRight", "ArrowLeft"}
  /\ ~isLocked
  /\ pendingPortraitFocus = [portrait |-> 1, index |-> 1]
  /\ isNavigating
  /\ navProgress = 0
  /\ navigationTarget = "scientists"
  /\ currentPortraitIndex = 1
  /\ camera = FocusPose(0)

\* C16: a forward step from the last exhibit targets exhibit 0 and a
\* backward step from exhibit 0 targets the last exhibit.
C16_StepWrapsAround ==
  [][(ArrowStep /\ IsExhibit(focusTarget)) =>
       /\ (lastOp'.key = NextKey /\ focusTarget = N - 1) => SteppedTo' = 0
       /\ (lastOp'.key = PreviousKey /\ focusTarget = 0)
             => SteppedTo' = N - 1
    ]_vars

\* C16 witness: in the museum of three exhibits a forward step has wrapped
\* to exhibit 0, or a backward step to exhibit 2
C16_Witness ==
  /\ lastOp.op = "key"
  /\ N = 3
  /\ \/ lastOp.key = NextKey /\ lastRead = Read("arrow", 0)
     \/ lastOp.key = PreviousKey /\ lastRead = Read("arrow", 2)
  /\ SteppedTo = lastRead.index

\* C17: ArrowRight steps to the next exhibit, (i + 1) mod N, and ArrowLeft
\* to the previous one, (i - 1) mod N.
C17_RightIsNext ==
  [][(ArrowStep /\ IsExhibit(focusTarget)) =>
       /\ lastOp'.key = "ArrowRight" => SteppedTo' = (focusTarget + 1) % N
       /\ lastOp'.key = "ArrowLeft"
             => SteppedTo' = (focusTarget + N - 1) % N
    ]_vars

\* C18: from a locked state on exhibit i, a forward step followed by a
\* backward step, neither through a room navigation, ends on exhibit i
\* with the stored index it started with.
C18_NextThenPreviousRestores ==
  (isLocked /\ IsExhibit(focusTarget)) =>
     LET s1 == ArrowKey(Cur, NextKey)
         s2 == ArrowKey(s1, PreviousKey)
     IN  (s1.isLocked /\ s2.isLocked) =>
            /\ s2.focusTarget = focusTarget
            /\ s2.currentPortraitIndex = currentPortraitIndex

\* Escape is handled
EscapeStep ==
  /\ lastOp'.op = "key"
  /\ lastOp'.key = "Escape"

C20_EscapeUnlockedNoNavigation ==
  [][(EscapeStep /\ ~isLocked) =>
       UNCHANGED <<navVars, camera, path, focusVars>>
    ]_vars

\* C20 witness: Escape was pressed during a transition that goes on
C20_Witness ==
  /\ lastOp.op = "key"
  /\ lastOp.key = "Escape"
  /\ isNavigating
  /\ navProgress > 0
  /\ ~isLocked

\* the settle timeout callback applies a pending focus
SettleApplies ==
  /\ lastOp'.op = "settle"
  /\ pendingPortraitFocus # NoPending

\* C21: when the settle timeout callback locks the focus on the pending
\* exhibit, no room navigation is in flight: isNavigating is false, also
\* after a room button or a cross-room step during the settle delay.
C21_PendingAppliedAtRest ==
  [][SettleApplies => (isLocked' /\ ~isNavigating')]_vars

\* showNextPortrait has scheduled the end-of-cycle stop
StopScheduled ==
  /\ isTouring'
  /\ stopTimeouts'.before + stopTimeouts'.racing > PendingStops(Cur)

\* C22: the end-of-cycle stop is scheduled with a delay of one interval
\* period, and the interval does not fire again before that stop: no
\* interval tick runs in a tour whose stop is pending.
C22_StopAfterOnePeriod ==
  [][
      /\ StopScheduled => (StopDelay = TourIntervalPeriod)
      /\ (lastOp'.op = "tick" /\ isTouring) => (PendingStops(Cur) = 0)
    ]_vars

\* C23: in every frame updateNavigation runs before the focus controller:
\* the edge detection samples isNavigating as the navigator of the same
\* frame left it, and the focus convergence is the last writer of the
\* camera while an exhibit is focused.
C23_NavigatorTicksFirst ==
  lastOp.op = "frame" =>
     /\ wasNavigating = isNavigating
     /\ (isLocked /\ Truthy(focusTarget)) => camera.kind = "focus"

\* the point a room's viewing pose is derived from
Anchor(r) == roomPositions[r]

\* the camera position of a destination: the anchor moved along the
\* facing normal, at the viewing height
OffsetAlongNormal(r) ==
  LET a == Anchor(r)
  IN  CASE a.facing = "right" ->
             Vec(a.x + RoomOffsetDistance, RoomViewHeight, a.z)
        [] a.facing = "left" ->
             Vec(a.x - RoomOffsetDistance, RoomViewHeight, a.z)
        [] a.facing = "front" ->
             Vec(a.x, RoomViewHeight, a.z + EntranceDistance)

\* C24 as stated: for every room the destination places the camera at the
\* anchor moved along the facing normal at roomViewHeight, and the look-at
\* target exactly at the anchor, at lookAtHeight.
C24_LookAtIsAnchor ==
  navigationTarget # NoRoom =>
     /\ path.navEndPos = OffsetAlongNormal(navigationTarget)
     /\ path.navEndTarget = Vec(Anchor(navigationTarget).x, LookAtHeight,
                                Anchor(navigationTarget).z)

\* C24: for every room the destination places the camera at the anchor
\* moved along the facing normal at roomViewHeight; the look-at target is
\* the anchor at lookAtHeight for a room facing right or left, and the
\* anchor moved by entranceDistance against the normal for the entrance
\* hall.  The camera comes to rest exactly there.
C24_DestinationPoses ==
  navigationTarget # NoRoom =>
     LET a == Anchor(navigationTarget)
         lookAt == IF a.facing = "front"
                     THEN Vec(a.x, LookAtHeight, a.z - EntranceDistance)
                     ELSE Vec(a.x, LookAtHeight, a.z)
     IN  /\ path.navEndPos = OffsetAlongNormal(navigationTarget)
         /\ path.navEndTarget = lookAt
         /\ ~isNavigating =>
               (path.position = OffsetAlongNormal(navigationTarget)
                  /\ path.target = lookAt)

\* C24 witness: the camera rests in the entrance hall after a visit to the
\* last room of the left side
C24_Witness ==
  /\ navigationTarget = "entrance"
  /\ ~isNavigating
  /\ path.navStartPos = OffsetAlongNormal("events")
  /\ path.position = Vec(0, 400, 3300)
  /\ path.target = Vec(0, 300, 300)

\* the two halves of the corridor-crossing path of transition q at eased
\* progress t, each as updateNavigation computes it
CrossingFirstHalf(q, t) ==
  LET midZ == (q.navStartPos.z + q.navEndPos.z) \div 2
      midPoint == Vec(0, RoomViewHeight, midZ)
      t2 == t * 2
  IN  [position |-> LerpVectors(q.navStartPos, midPoint, t2),
       target |-> Vec((q.navStartTarget.x * (EaseUnit - t2)) \div EaseUnit,
                      LookAtHeight, midZ)]

CrossingSecondHalf(q, t) ==
  LET midZ == (q.navStartPos.z + q.navEndPos.z) \div 2
      midPoint == Vec(0, RoomViewHeight, midZ)
      t2 == (t - EaseUnit \div 2) * 2
  IN  [position |-> LerpVectors(midPoint, q.navEndPos, t2),
       target |-> LerpVectors(Vec(0, LookAtHeight, midZ),
                              q.navEndTarget, t2)]

\* the pose captured when the transition was requested
StartPose(q) == [position |-> q.navStartPos, target |-> q.navStartTarget]

\* C25: the path is continuous: at eased progress 0 the computed position
\* and look-at equal the captured start pose, on the direct and on the
\* crossing path, and at the half-way switch of the crossing path both
\* halves give the same position and look-at.
C25_PathIsContinuous ==
  navigationTarget # NoRoom =>
     /\ EaseInOutQuad(0) = 0
     /\ PoseAt(path, 0) = StartPose(path)
     /\ path.navCrossingSides =>
           /\ CrossingFirstHalf(path, 0) = StartPose(path)
           /\ CrossingFirstHalf(path, EaseUnit \div 2)
                 = CrossingSecondHalf(path, EaseUnit \div 2)

\* the rooms, the entrance excluded, whose anchor lies within the
\* proximity box of exhibit e
RoomsNear(e) ==
  {r \in RoomIds \ {"entrance"} :
     /\ Abs(exhibits[e + 1].x - roomPositions[r].x) < RoomMatchDistance
     /\ Abs(exhibits[e + 1].z - roomPositions[r].z) < RoomMatchDistance}

\* the room that built exhibit e of the shipped museum: rooms are built in
\* insertion order, four portraits each
BuiltIn(e) == BuildOrder[e \div 4 + 1]

\* C26: for every exhibit of the shipped museum getRoomFromPortrait
\* returns the room the exhibit was built in, and the anchor of exactly
\* one room lies within the proximity box of the exhibit.  So Escape on a
\* focused exhibit returns to the room that built it, and an arrow step
\* goes through a navigation exactly when the two exhibits were built in
\* different rooms.
C26_ShippedRoomsResolve ==
  /\ [](\A e \in 0..(N - 1) :
          /\ GetRoomFromPortrait(e) = BuiltIn(e)
          /\ RoomsNear(e) = {BuiltIn(e)}
          /\ RoomOf(e) = BuiltIn(e))
  /\ [][
         /\ (EscapeStep /\ isLocked)
              => (isNavigating' /\ navigationTarget' = BuiltIn(focusTarget))
         /\ ArrowStep
              => LET target == StepIndex(Cur, lastOp'.key)
                 IN  IF BuiltIn(target) # BuiltIn(focusTarget)
                       THEN /\ isNavigating'
                            /\ navigationTarget' = BuiltIn(target)
                            /\ pendingPortraitFocus'.portrait = target
                       ELSE /\ focusTarget' = target
                            /\ UNCHANGED navVars
       ]_vars

\* C26 witness: Escape pressed on the last exhibit of the last room has
\* requested the navigation to that room
C26_Witness ==
  /\ N = 24
  /\ lastOp.op = "key"
  /\ lastOp.key = "Escape"
  /\ currentPortraitIndex = 24
  /\ isNavigating
  /\ navigationTarget = "events"

\* an end-of-cycle timeout stops the running tour
TimeoutStopsTour ==
  /\ lastOp'.op = "stop"
  /\ isTouring
  /\ ~isTouring'

\* C27: an end-of-cycle timeout stops only the tour that scheduled it: a
\* tour that a timeout stops has shown all N exhibits, the last one being
\* focused and the index wrapped to 0, also when an earlier tour was
\* stopped by the user while its timeout was pending.
C27_OldTimeoutSparesNewTour ==
  [][TimeoutStopsTour =>
       (currentPortraitIndex = 0 /\ focusTarget = N - 1)]_vars

\* C28: with fair timers and finitely many clicks and arrow steps, a
\* running tour stops by itself.
C28_TourEventuallyStops == isTouring ~> ~isTouring

\* C29: when a pending focus is applied, the room requested last is the
\* room that owns the pending exhibit.
C29_PendingAppliedInOwnRoom ==
  [][SettleApplies =>
       (navigationTarget = RoomOf(pendingPortraitFocus.portrait)
          /\ focusTarget' = pendingPortraitFocus.portrait)]_vars

\* C30: whenever the controller is locked on the exhibit at position p,
\* the stored index is one past p modulo N:
\* (currentPortraitIndex - 1) mod N = p.
C30_StoredIndexFollowsFocus ==
  (isLocked /\ IsExhibit(focusTarget)) =>
     (currentPortraitIndex - 1) % N = focusTarget

\* C30 witness: the tour has shown the last of three exhibits and wrapped
\* the stored index to 0
C30_Witness ==
  /\ N = 3
  /\ lastOp.op = "tick"
  /\ isLocked
  /\ focusTarget = 2
  /\ currentPortraitIndex = 0

====
